---- MODULE Spec2Model ----
(***************************************************************************)
(* State-machine model of src/src/ds4.rs of vigem_client: the virtual      *)
(* DualShock 4 target (DualShock4Wired) and its notification object        *)
(* (DSRequestNotification), running against one bus controller.            *)
(*                                                                         *)
(* The bus module (bus::PluginTarget, bus::UnplugTarget,                   *)
(* bus::RequestNotification, ...) and the controller behind the device     *)
(* handle are not part of src/: the Bus* operators model them from the     *)
(* specification's description of the device-control primitive.            *)
(***************************************************************************)
EXTENDS Integers, Sequences, FiniteSets, TLC

(* ------------------------------ bounds -------------------------------- *)
\* u16::MAX of src/src/ds4.rs:227, scaled down
U16_MAX == 3
\* DualShock4Wired objects constructed
NumTargets == 2
\* DSRequestNotification objects that can be created
NumReqN == 1
\* largest value of a field of the output report
MaxField == 1

Targets == 1..NumTargets
ReqNs == 1..NumReqN
\* slot numbers the controller knows
Slots == 1..U16_MAX
\* slots that devices of other clients can hold from the start
ExternalSlots == 1..(U16_MAX - 1)
Fields == 0..MaxField

(* --------------------------- error values ----------------------------- *)
ERROR_IO_INCOMPLETE == "ERROR_IO_INCOMPLETE"
ERROR_OPERATION_ABORTED == "ERROR_OPERATION_ABORTED"
\* the controller's answer to an attach request for a slot in use
ERROR_ALREADY_EXISTS == "ERROR_ALREADY_EXISTS"
\* the answer of a cancel that found no pending request
ERROR_NOT_FOUND == "ERROR_NOT_FOUND"
\* any other failure of the channel
ChannelErrors == {"ERROR_GEN_FAILURE"}

\* Result<_, Error>: kind is "Ok" or "Err"; err the Error variant; code the
\* WinError payload; data the Option payload of poll (<<>> is None, <<r>>
\* is Some(r)).
Res(kind, err, code, data) == [kind |-> kind, err |-> err, code |-> code, data |-> data]
Ok == Res("Ok", "", "", <<>>)
OkSome(r) == Res("Ok", "", "", <<r>>)
Err(e) == Res("Err", e, "", <<>>)
WinError(code) == Res("Err", "WinError", code, <<>>)

\* a device-control request as the controller sees it, with its answer
\* ("OK", an error code, or "PENDING" for an asynchronous call)
Ioctl(code, slot, answer) == [code |-> code, slot |-> slot, answer |-> answer]

ZeroReport == [small_motor |-> 0, large_motor |-> 0, lightbar_color |-> 0]
Reports == [small_motor : Fields, large_motor : Fields, lightbar_color : Fields]

(* ------------------------------ state --------------------------------- *)
VARIABLES
  serial_no,   \* DualShock4Wired.serial_no of each target
  tpc,         \* position of each target: "idle", "plugin" (inside the attach
               \* loop of plugin()), "dropped"
  plugin,      \* plugin.SerialNo, the candidate of the running plugin() call
  offered,     \* the attach requests the running plugin() call has sent so far
  inUse,       \* controller: the slots that hold a device
  rstate,      \* each notification object: "unborn", "live", "dropped"
  SerialNo,    \* buffer.SerialNo of each notification object (the slot snapshot)
  overlapped,  \* completion state of the object's asynchronous call: "none"
               \* (never issued), "pending", or its final status: "OK" or an error code
  Report,      \* buffer.Report of each notification object
  pending,     \* controller: it holds an uncompleted request on the object's buffer
  last,        \* the call that returned last: see Call
  thr,         \* position of the thread of spawn_thread() that owns the object:
               \* "none" (not spawned), "first" and "request" (about to call
               \* request(), in the first and in a later round), "poll" (about
               \* to call poll(true)), "break" (left the loop), "done"
  called,      \* the reports the thread's last round passed to the callback f
  origin       \* the target whose request_notification() created the object

vars == <<serial_no, tpc, plugin, offered, inUse,
          rstate, SerialNo, overlapped, Report, pending, last,
          thr, called, origin>>
\* what only spawn_thread() and its thread change
lvars == <<thr, called>>
tvars == <<serial_no, tpc, plugin, offered>>
rvars == <<rstate, SerialNo, overlapped, Report, pending>>

\* A returned call: the method op of object who of class obj ("target" or
\* "reqn"), pre the object's serial number and ov its completion state when
\* it was called, wait the argument of poll, res the result, sent the
\* device-control requests the call sent, in order.
Call(obj, op, who, pre, ov, wait, res, sent) ==
  [obj |-> obj, op |-> op, who |-> who, pre |-> pre, ov |-> ov, wait |-> wait,
   res |-> res, sent |-> sent]
TCall(op, t, res, sent) == Call("target", op, t, serial_no[t], "", FALSE, res, sent)
RCall(op, n, wait, res, sent) ==
  Call("reqn", op, n, SerialNo[n], overlapped[n], wait, res, sent)

Init ==
  /\ serial_no = [t \in Targets |-> 0]
  /\ tpc = [t \in Targets |-> "idle"]
  /\ plugin = [t \in Targets |-> 0]
  /\ offered = [t \in Targets |-> <<>>]
  /\ inUse \in SUBSET ExternalSlots
  /\ rstate = [n \in ReqNs |-> "unborn"]
  /\ SerialNo = [n \in ReqNs |-> 0]
  /\ overlapped = [n \in ReqNs |-> "none"]
  /\ Report = [n \in ReqNs |-> ZeroReport]
  /\ pending = [n \in ReqNs |-> FALSE]
  /\ last = Call("none", "new", 0, 0, "", FALSE, Ok, <<>>)
  /\ thr = [n \in ReqNs |-> "none"]
  /\ called = [n \in ReqNs |-> <<>>]
  /\ origin = [n \in ReqNs |-> 0]

(* ------------------------- the bus controller ------------------------- *)
\* bus::PluginTarget::ioctl: the answers the controller can give to an
\* attach request for slot s: a slot in use is rejected; a free slot is
\* accepted unless the channel fails.
BusPluginResults(s) ==
  IF s \in inUse THEN {ERROR_ALREADY_EXISTS} ELSE {"OK"} \cup ChannelErrors

\* bus::UnplugTarget::ioctl, WaitDeviceReady::ioctl, DS4SubmitReport::ioctl:
\* the request succeeds unless the channel fails.
BusSyncResults == {"OK"} \cup ChannelErrors

\* The controller detaching slot s: the slot is freed and every pending
\* notification request against it completes as aborted.
BusDetach(s) ==
  /\ inUse' = inUse \ {s}
  /\ overlapped' = [n \in ReqNs |->
       IF pending[n] /\ SerialNo[n] = s /\ rstate[n] = "live"
       THEN ERROR_OPERATION_ABORTED ELSE overlapped[n]]
  /\ pending' = [n \in ReqNs |-> pending[n] /\ SerialNo[n] # s]

(* Variants of the definitions below, each changed the way a slip in the   *)
(* code would change it; a claim's formula is expected to fail under its  *)
(* variant.                                                               *)
is_attached_Never(t) == FALSE
is_attached_Always(t) == TRUE

(* --------------------------- DualShock4Wired -------------------------- *)
\* is_attached(), lines 184-186
is_attached(t) == serial_no[t] # 0

\* variant: the probe starts one slot too low
FirstCandidate_OffByOne == 1 - 1

\* plugin(), line 221: the first candidate slot
FirstCandidate == 1

\* plugin(), line 226: the candidate after a rejected one
NextCandidate(cand) == cand + 1

\* plugin(), lines 215-218 and 221: the attachment check and the first candidate
PluginCall(t) ==
  /\ tpc[t] = "idle"
  /\ IF is_attached(t)
     THEN /\ last' = TCall("plugin", t, Err("AlreadyConnected"), <<>>)
          /\ UNCHANGED <<tpc, plugin>>
     ELSE /\ tpc' = [tpc EXCEPT ![t] = "plugin"]
          /\ plugin' = [plugin EXCEPT ![t] = FirstCandidate]
          /\ UNCHANGED last
  /\ UNCHANGED <<serial_no, offered, inUse>>
  /\ UNCHANGED rvars

\* variant: the attach loop has no limit
PluginExhausted_Never(cand) == FALSE

\* the candidate limit of the attach loop, line 227
PluginExhausted(cand) == cand >= U16_MAX

\* variant: plugin() does not look at the attach request's answer
PluginLoop_NoRetry(t) ==
  /\ tpc[t] = "plugin"
  /\ \E r \in BusPluginResults(plugin[t]) :
       /\ inUse' = IF r = "OK" THEN inUse \cup {plugin[t]} ELSE inUse
       /\ serial_no' = [serial_no EXCEPT ![t] = plugin[t]]
       /\ last' = TCall("plugin", t, Ok,
                        Append(offered[t], Ioctl("PLUGIN_TARGET", plugin[t], r)))
       /\ tpc' = [tpc EXCEPT ![t] = "idle"]
       /\ plugin' = [plugin EXCEPT ![t] = 0]
       /\ offered' = [offered EXCEPT ![t] = <<>>]
  /\ UNCHANGED rvars

\* plugin(), lines 225-235: one round of the attach loop
PluginLoop(t) ==
  /\ tpc[t] = "plugin"
  /\ \E r \in BusPluginResults(plugin[t]) :
       LET sent == Append(offered[t], Ioctl("PLUGIN_TARGET", plugin[t], r)) IN
       IF r = "OK"
       THEN /\ inUse' = inUse \cup {plugin[t]}
            /\ serial_no' = [serial_no EXCEPT ![t] = plugin[t]]
            /\ last' = TCall("plugin", t, Ok, sent)
            /\ tpc' = [tpc EXCEPT ![t] = "idle"]
            /\ plugin' = [plugin EXCEPT ![t] = 0]
            /\ offered' = [offered EXCEPT ![t] = <<>>]
       ELSE /\ UNCHANGED <<inUse, serial_no>>
            /\ IF PluginExhausted(NextCandidate(plugin[t]))
               THEN /\ last' = TCall("plugin", t, Err("NoFreeSlot"), sent)
                    /\ tpc' = [tpc EXCEPT ![t] = "idle"]
                    /\ plugin' = [plugin EXCEPT ![t] = 0]
                    /\ offered' = [offered EXCEPT ![t] = <<>>]
               ELSE /\ plugin' = [plugin EXCEPT ![t] = NextCandidate(@)]
                    /\ offered' = [offered EXCEPT ![t] = sent]
                    /\ UNCHANGED <<last, tpc>>
  /\ UNCHANGED rvars

\* variant: serial_no is cleared before the detach request's answer is checked
UnplugSerial_ClearsFirst(r, serial) == 0

\* unplug(), lines 248-251: serial_no after the detach request was answered r
UnplugSerial(r, serial) == IF r = "OK" THEN 0 ELSE serial

\* unplug(), lines 248-252: the result after the detach request was answered r
UnplugResult(r) == IF r = "OK" THEN Ok ELSE WinError(r)

\* what a caller of unplug() reports of its result r: the result itself, or
\* nothing when it discards it (let _ = self.unplug(), lines 203 and 337)
Reported(discard, r) == IF discard THEN Ok ELSE r

\* unplug(), lines 240-253, as called by method op; after is the target's
\* position when op returns, discard whether op discards unplug's result
UnplugBody(t, op, after, discard) ==
  /\ tpc[t] = "idle"
  /\ tpc' = [tpc EXCEPT ![t] = after]
  /\ UNCHANGED <<plugin, offered, rstate, SerialNo, Report>>
  /\ IF ~is_attached(t)
     THEN /\ last' = TCall(op, t, Reported(discard, Err("NotPluggedIn")), <<>>)
          /\ UNCHANGED <<serial_no, inUse, overlapped, pending>>
     ELSE \E r \in BusSyncResults :
          LET sent == <<Ioctl("UNPLUG_TARGET", serial_no[t], r)>> IN
          /\ serial_no' = [serial_no EXCEPT ![t] = UnplugSerial(r, @)]
          /\ last' = TCall(op, t, Reported(discard, UnplugResult(r)), sent)
          /\ IF r = "OK"
             THEN BusDetach(serial_no[t])
             ELSE UNCHANGED <<inUse, overlapped, pending>>

\* unplug(), lines 240-253
unplug(t) == UnplugBody(t, "unplug", "idle", FALSE)

\* drop(self) -> CL, lines 202-211: unplug with its result discarded; the
\* value is forgotten, so the Drop implementation does not run afterwards
drop(t) == UnplugBody(t, "drop", "dropped", TRUE)

\* variant: the destructor surfaces unplug's error
DropTarget_Surfaces(t) == UnplugBody(t, "Drop", "dropped", FALSE)

\* impl Drop for DualShock4Wired, lines 334-339
DropTarget(t) == UnplugBody(t, "Drop", "dropped", TRUE)

\* wait_ready(), update(), update_ex(), lines 259-303: the attachment check
\* and one synchronous device-control request for the target's slot
SyncBody(t, op, code) ==
  /\ tpc[t] = "idle"
  /\ UNCHANGED <<serial_no, tpc, plugin, offered, inUse>>
  /\ UNCHANGED rvars
  /\ IF ~is_attached(t)
     THEN last' = TCall(op, t, Err("NotPluggedIn"), <<>>)
     ELSE \E r \in BusSyncResults :
          last' = TCall(op, t, IF r = "OK" THEN Ok ELSE WinError(r),
                        <<Ioctl(code, serial_no[t], r)>>)

\* wait_ready(), lines 259-271
wait_ready(t) == SyncBody(t, "wait_ready", "WAIT_DEVICE_READY")
\* update(), lines 275-287
update(t) == SyncBody(t, "update", "DS4_SUBMIT_REPORT")
\* update_ex(), lines 291-303
update_ex(t) == SyncBody(t, "update_ex", "DS4_SUBMIT_REPORT_EX")

\* request_notification(), lines 312-321: the attachment check, the clone
\* of the client (which can fail) and a new object bound to the current
\* slot; the new object is the first one not yet created
request_notification(t) ==
  /\ tpc[t] = "idle"
  /\ UNCHANGED <<serial_no, tpc, plugin, offered, inUse, pending>>
  /\ IF ~is_attached(t)
     THEN /\ last' = TCall("request_notification", t, Err("NotPluggedIn"), <<>>)
          /\ UNCHANGED <<rstate, SerialNo, overlapped, Report>>
     ELSE /\ \E n \in ReqNs : rstate[n] = "unborn"
          /\ \/ \E e \in ChannelErrors :
                  /\ last' = TCall("request_notification", t, WinError(e), <<>>)
                  /\ UNCHANGED <<rstate, SerialNo, overlapped, Report>>
             \/ LET n == CHOOSE m \in ReqNs :
                           rstate[m] = "unborn" /\ \A k \in ReqNs : rstate[k] = "unborn" => m <= k
                IN /\ rstate' = [rstate EXCEPT ![n] = "live"]
                   /\ SerialNo' = [SerialNo EXCEPT ![n] = serial_no[t]]
                   /\ overlapped' = [overlapped EXCEPT ![n] = "none"]
                   /\ Report' = [Report EXCEPT ![n] = ZeroReport]
                   /\ last' = TCall("request_notification", t, Ok, <<>>)

(* ------------------- bus::RequestNotification (controller) ------------ *)
\* ioctl: the asynchronous call is queued at the controller when the slot
\* holds a device; a call for an empty slot completes at once with an error
BusRequestAnswers(s) ==
  IF s \in inUse THEN {"PENDING"} ELSE {ERROR_OPERATION_ABORTED} \cup ChannelErrors

\* poll: the state of the asynchronous call; "BLOCK" when wait is true and
\* nothing has completed
BusPoll(ov, wait) ==
  IF ov \in {"none", "pending"}
  THEN (IF wait THEN "BLOCK" ELSE ERROR_IO_INCOMPLETE)
  ELSE ov

\* cancel: a pending call is cancelled synchronously; with nothing pending
\* the cancel fails
BusCancel(isPending) == IF isPending THEN "OK" ELSE ERROR_NOT_FOUND

\* the controller completes a pending call with an output report
BusNotify(n) ==
  /\ pending[n]
  /\ pending' = [pending EXCEPT ![n] = FALSE]
  /\ IF rstate[n] = "live"
     THEN \E r \in Reports :
            /\ Report' = [Report EXCEPT ![n] = r]
            /\ overlapped' = [overlapped EXCEPT ![n] = "OK"]
     ELSE UNCHANGED <<Report, overlapped>>
  /\ UNCHANGED <<rstate, SerialNo, inUse, last>>
  /\ UNCHANGED tvars

\* the controller fails a pending call
BusFail(n) ==
  /\ pending[n]
  /\ pending' = [pending EXCEPT ![n] = FALSE]
  /\ IF rstate[n] = "live"
     THEN \E e \in ChannelErrors : overlapped' = [overlapped EXCEPT ![n] = e]
     ELSE UNCHANGED overlapped
  /\ UNCHANGED <<rstate, SerialNo, Report, inUse, last>>
  /\ UNCHANGED tvars

(* ------------------------ DSRequestNotification ----------------------- *)
\* is_attached(), lines 24-30
rn_is_attached(n) == SerialNo[n] # 0

\* variant: request() does not check the snapshot
RequestIssues_Always(serial) == TRUE

\* variant: request() never reaches the device-control call
RequestIssues_Never(serial) == FALSE

\* request(), line 65: the guard of the device-control call
RequestIssues(serial) == serial # 0

\* request(), lines 59-73
request(n) ==
  /\ rstate[n] = "live"
  /\ UNCHANGED <<rstate, SerialNo, Report, inUse>>
  /\ UNCHANGED tvars
  /\ IF RequestIssues(SerialNo[n])
     THEN \E a \in BusRequestAnswers(SerialNo[n]) :
            /\ overlapped' = [overlapped EXCEPT ![n] = IF a = "PENDING" THEN "pending" ELSE a]
            /\ pending' = [pending EXCEPT ![n] = (a = "PENDING")]
            /\ last' = RCall("request", n, FALSE, Ok,
                             <<Ioctl("DS4_REQUEST_NOTIFICATION", SerialNo[n], a)>>)
     ELSE /\ last' = RCall("request", n, FALSE, Ok, <<>>)
          /\ UNCHANGED <<overlapped, pending>>

\* variant: poll() has no arm for ERROR_IO_INCOMPLETE
PollResult_NoIncompleteArm(r, buffer) ==
  CASE r = "OK" -> OkSome([small_motor |-> buffer.small_motor,
                           large_motor |-> buffer.large_motor,
                           lightbar_color |-> buffer.lightbar_color])
    [] r = ERROR_OPERATION_ABORTED -> Err("OperationAborted")
    [] OTHER -> WinError(r)

\* variant: poll() copies the two motor fields crosswise
PollResult_SwapsMotors(r, buffer) ==
  CASE r = "OK" -> OkSome([small_motor |-> buffer.large_motor,
                           large_motor |-> buffer.small_motor,
                           lightbar_color |-> buffer.lightbar_color])
    [] r = ERROR_IO_INCOMPLETE -> Ok
    [] r = ERROR_OPERATION_ABORTED -> Err("OperationAborted")
    [] OTHER -> WinError(r)

\* poll(), lines 92-120: the result for answer r of the bus's poll, with
\* buffer the in-flight buffer's report
PollResult(r, buffer) ==
  CASE r = "OK" -> OkSome([small_motor |-> buffer.small_motor,
                           large_motor |-> buffer.large_motor,
                           lightbar_color |-> buffer.lightbar_color])
    [] r = ERROR_IO_INCOMPLETE -> Ok
    [] r = ERROR_OPERATION_ABORTED -> Err("OperationAborted")
    [] OTHER -> WinError(r)

\* variant: poll() reports the abort and keeps the snapshot
PollSerialNo_Keeps(r, serial) == serial

\* variant: poll() clears the snapshot in the ERROR_IO_INCOMPLETE arm too
PollSerialNo_ClearsOnIncomplete(r, serial) ==
  IF r \in {ERROR_OPERATION_ABORTED, ERROR_IO_INCOMPLETE} THEN 0 ELSE serial

\* poll(), lines 107-118: the snapshot after answer r
PollSerialNo(r, serial) == IF r = ERROR_OPERATION_ABORTED THEN 0 ELSE serial

\* variant: poll() asks for the next notification once it has read a report
poll_Rearms(n, wait) ==
  /\ rstate[n] = "live"
  /\ LET r == BusPoll(overlapped[n], wait) IN
       /\ r # "BLOCK"
       /\ SerialNo' = [SerialNo EXCEPT ![n] = PollSerialNo(r, @)]
       /\ IF r = "OK" /\ SerialNo[n] \in inUse
          THEN /\ overlapped' = [overlapped EXCEPT ![n] = "pending"]
               /\ pending' = [pending EXCEPT ![n] = TRUE]
               /\ last' = RCall("poll", n, wait, PollResult(r, Report[n]),
                                <<Ioctl("DS4_REQUEST_NOTIFICATION", SerialNo[n], "PENDING")>>)
          ELSE /\ last' = RCall("poll", n, wait, PollResult(r, Report[n]), <<>>)
               /\ UNCHANGED <<overlapped, pending>>
  /\ UNCHANGED <<rstate, Report, inUse>>
  /\ UNCHANGED tvars

\* poll(), lines 88-122
poll(n, wait) ==
  /\ rstate[n] = "live"
  /\ LET r == BusPoll(overlapped[n], wait) IN
       /\ r # "BLOCK"
       /\ SerialNo' = [SerialNo EXCEPT ![n] = PollSerialNo(r, @)]
       /\ last' = RCall("poll", n, wait, PollResult(r, Report[n]), <<>>)
  /\ UNCHANGED <<rstate, overlapped, Report, pending, inUse>>
  /\ UNCHANGED tvars

\* variant: the drop never cancels
DropCancels_Never(serial) == FALSE

\* Drop, line 151: the guard of the cancel
DropCancels(serial) == serial # 0

\* impl Drop for DSRequestNotification, lines 142-158; the object's memory
\* is released when it returns
DropReqN(n) ==
  /\ rstate[n] = "live"
  /\ rstate' = [rstate EXCEPT ![n] = "dropped"]
  /\ SerialNo' = [SerialNo EXCEPT ![n] = 0]
  /\ overlapped' = [overlapped EXCEPT ![n] = "none"]
  /\ Report' = [Report EXCEPT ![n] = ZeroReport]
  /\ UNCHANGED inUse
  /\ UNCHANGED tvars
  /\ IF DropCancels(SerialNo[n])
     THEN LET a == BusCancel(pending[n]) IN
            /\ pending' = [pending EXCEPT ![n] = FALSE]
            /\ last' = RCall("Drop", n, FALSE, Ok,
                             <<Ioctl("CANCEL", SerialNo[n], a)>>)
     ELSE /\ last' = RCall("Drop", n, FALSE, Ok, <<>>)
          /\ UNCHANGED pending

(* ----------------------------- spawn_thread --------------------------- *)
\* spawn_thread(), lines 39-43: the object moves into a new thread, which
\* is about to start the loop
spawn_thread(n) ==
  /\ rstate[n] = "live"
  /\ thr[n] = "none"
  /\ thr' = [thr EXCEPT ![n] = "first"]
  /\ UNCHANGED <<called, origin, inUse, last>>
  /\ UNCHANGED tvars
  /\ UNCHANGED rvars

\* spawn_thread(), line 45: the request() of a round
LoopRequest(n) ==
  /\ thr[n] \in {"first", "request"}
  /\ request(n)
  /\ thr' = [thr EXCEPT ![n] = "poll"]
  /\ called' = [called EXCEPT ![n] = <<>>]
  /\ UNCHANGED origin

\* variant: the loop goes on after an error other than the abort
LoopAfter_OnlyAbortBreaks(res) ==
  IF res.kind = "Err" /\ res.err = "OperationAborted" THEN "break" ELSE "request"

\* variant: the loop has no break
LoopAfter_NeverBreaks(res) == "request"

\* spawn_thread(), lines 47-52: where the loop goes after poll returned res
LoopAfter(res) == IF res.kind = "Err" THEN "break" ELSE "request"

\* spawn_thread(), lines 47-52: the callback's arguments after poll returned res
LoopCallback(res) == IF res.kind = "Ok" THEN res.data ELSE <<>>

\* variant: the loop polls without waiting
LoopPoll_NoWait(n) ==
  /\ thr[n] = "poll"
  /\ poll(n, FALSE)
  /\ thr' = [thr EXCEPT ![n] = LoopAfter(last'.res)]
  /\ called' = [called EXCEPT ![n] = LoopCallback(last'.res)]
  /\ UNCHANGED origin

\* spawn_thread(), lines 46-52: the poll(true) of a round and the match on
\* its result
LoopPoll(n) ==
  /\ thr[n] = "poll"
  /\ poll(n, TRUE)
  /\ thr' = [thr EXCEPT ![n] = LoopAfter(last'.res)]
  /\ called' = [called EXCEPT ![n] = LoopCallback(last'.res)]
  /\ UNCHANGED origin

\* spawn_thread(), lines 53-54: the closure returns and the object it owns
\* is dropped
LoopExit(n) ==
  /\ thr[n] = "break"
  /\ DropReqN(n)
  /\ thr' = [thr EXCEPT ![n] = "done"]
  /\ UNCHANGED <<called, origin>>

\* request_notification() with the created object's origin recorded
RequestNotification(t) ==
  /\ request_notification(t)
  /\ origin' = [n \in ReqNs |->
       IF rstate[n] = "unborn" /\ rstate'[n] = "live" THEN t ELSE origin[n]]
  /\ UNCHANGED lvars

\* a call of the notification object's owner, who holds it until it is
\* moved into a thread
OwnerRequest(n) == thr[n] = "none" /\ request(n) /\ UNCHANGED <<thr, called, origin>>
OwnerPoll(n, wait) == thr[n] = "none" /\ poll(n, wait) /\ UNCHANGED <<thr, called, origin>>
OwnerDrop(n) == thr[n] = "none" /\ DropReqN(n) /\ UNCHANGED <<thr, called, origin>>

Next ==
  \/ \E t \in Targets : PluginCall(t) /\ UNCHANGED <<thr, called, origin>>
  \/ \E t \in Targets : PluginLoop(t) /\ UNCHANGED <<thr, called, origin>>
  \/ \E t \in Targets : unplug(t) /\ UNCHANGED <<thr, called, origin>>
  \/ \E t \in Targets : drop(t) /\ UNCHANGED <<thr, called, origin>>
  \/ \E t \in Targets : DropTarget(t) /\ UNCHANGED <<thr, called, origin>>
  \/ \E t \in Targets : wait_ready(t) /\ UNCHANGED <<thr, called, origin>>
  \/ \E t \in Targets : update(t) /\ UNCHANGED <<thr, called, origin>>
  \/ \E t \in Targets : update_ex(t) /\ UNCHANGED <<thr, called, origin>>
  \/ \E t \in Targets : RequestNotification(t)
  \/ \E n \in ReqNs : OwnerRequest(n)
  \/ \E n \in ReqNs, wait \in BOOLEAN : OwnerPoll(n, wait)
  \/ \E n \in ReqNs : OwnerDrop(n)
  \/ \E n \in ReqNs : spawn_thread(n)
  \/ \E n \in ReqNs : LoopRequest(n)
  \/ \E n \in ReqNs : LoopPoll(n)
  \/ \E n \in ReqNs : LoopExit(n)
  \/ \E n \in ReqNs : BusNotify(n) /\ UNCHANGED <<thr, called, origin>>
  \/ \E n \in ReqNs : BusFail(n) /\ UNCHANGED <<thr, called, origin>>

Spec == Init /\ [][Next]_vars

\* The thread of spawn_thread() is scheduled: a step of its loop that stays
\* possible is taken. The controller answers: a request that stays pending
\* is completed.
FairSpec ==
  /\ Spec
  /\ \A n \in ReqNs :
       /\ WF_vars(LoopRequest(n))
       /\ WF_vars(LoopPoll(n))
       /\ WF_vars(LoopExit(n))
       /\ WF_vars((BusNotify(n) \/ BusFail(n)) /\ UNCHANGED <<thr, called, origin>>)

(* ------------------------------ claims -------------------------------- *)
IsTargetCall(ops) == last.obj = "target" /\ last.op \in ops
IsReqNCall(ops) == last.obj = "reqn" /\ last.op \in ops
AbortedErr == Err("OperationAborted")

\* C1: once a poll() has observed the abort of the object's request it
\* returns Err(OperationAborted) and the slot snapshot is 0; from then on the
\* snapshot stays 0 (is_attached() is false, the object is never bound
\* again), request() sends nothing and leaves the completion state alone,
\* and poll(), waiting or not, does not block and fails with OperationAborted.
C1_AbortIsTerminal ==
  /\ [](/\ (IsReqNCall({"poll"}) /\ last.ov = ERROR_OPERATION_ABORTED) =>
              (last.res = AbortedErr /\ SerialNo[last.who] = 0)
        /\ (IsReqNCall({"request"}) /\ last.pre = 0) => last.sent = <<>>
        /\ (IsReqNCall({"poll"}) /\ last.pre = 0) => last.res = AbortedErr
        /\ \A n \in ReqNs : (rstate[n] = "live" /\ SerialNo[n] = 0) =>
              /\ ~rn_is_attached(n)
              /\ ~pending[n]
              /\ \A wait \in BOOLEAN : ENABLED poll(n, wait))
  /\ [][\A n \in ReqNs : (rstate[n] = "live" /\ SerialNo[n] = 0) =>
            /\ SerialNo'[n] = 0
            /\ rstate'[n] # "unborn"
            /\ pending'[n] = pending[n]
            /\ rstate'[n] = "live" => overlapped'[n] = overlapped[n]]_vars

\* C1 witness: a poll(wait = true) made after the abort was observed failed again
C1_Witness ==
  /\ IsReqNCall({"poll"})
  /\ last.pre = 0 /\ last.wait
  /\ last.res = AbortedErr
  /\ rstate[last.who] = "live"

\* C2: no dropped notification object has a request pending at the
\* controller; a drop made while a request was pending sent a cancel that
\* succeeded, and every drop completes, a failed cancel included.
C2_CancelBeforeFree ==
  /\ \A n \in ReqNs : rstate[n] = "dropped" => ~pending[n]
  /\ IsReqNCall({"Drop"}) =>
       /\ last.res = Ok
       /\ rstate[last.who] = "dropped"
       /\ last.ov = "pending" => last.sent = <<Ioctl("CANCEL", last.pre, "OK")>>

\* C2 witness: an object was dropped while its request was pending
C2_Witness ==
  /\ IsReqNCall({"Drop"})
  /\ last.ov = "pending"
  /\ inUse # {}

\* the slots of a sequence of requests
SentSlots(sent) == [i \in 1..Len(sent) |-> sent[i].slot]

\* C3: plugin() offers the candidates 1, 2, 3, ... in order, each once, the
\* next one only after the controller rejected the one before; it stops at
\* the first accepted candidate, which becomes the target's slot.
C3_PluginProbesInOrder ==
  /\ \A t \in Targets : tpc[t] = "plugin" =>
       /\ Len(offered[t]) = plugin[t] - 1
       /\ \A i \in 1..Len(offered[t]) :
            /\ offered[t][i].code = "PLUGIN_TARGET"
            /\ offered[t][i].slot = i
            /\ offered[t][i].answer # "OK"
  /\ (IsTargetCall({"plugin"}) /\ last.res = Ok) =>
       /\ Len(last.sent) >= 1
       /\ \A i \in 1..Len(last.sent) :
            /\ last.sent[i].code = "PLUGIN_TARGET"
            /\ last.sent[i].slot = i
            /\ (last.sent[i].answer = "OK") <=> (i = Len(last.sent))
       /\ serial_no[last.who] = Len(last.sent)

\* C3 witness: the second candidate was accepted after the first was rejected
C3_Witness ==
  /\ IsTargetCall({"plugin"})
  /\ last.res = Ok
  /\ SentSlots(last.sent) = <<1, 2>>
  /\ serial_no[last.who] = 2

\* C4: the attach loop is bounded, and a plugin() whose every candidate
\* was rejected returns Err(NoFreeSlot) with the target still unattached
\* and free to call plugin() again.
C4_NoFreeSlot ==
  /\ \A t \in Targets : tpc[t] = "plugin" => Len(offered[t]) < U16_MAX
  /\ (/\ IsTargetCall({"plugin"})
      /\ last.sent # <<>>
      /\ \A i \in 1..Len(last.sent) : last.sent[i].answer # "OK") =>
       /\ last.res = Err("NoFreeSlot")
       /\ serial_no[last.who] = 0
       /\ ~is_attached(last.who)
       /\ tpc[last.who] = "idle" => ENABLED PluginCall(last.who)
  /\ (IsTargetCall({"plugin"}) /\ last.res = Err("NoFreeSlot")) =>
       /\ last.sent # <<>>
       /\ \A i \in 1..Len(last.sent) : last.sent[i].answer # "OK"

\* C4 witness: plugin() returned NoFreeSlot after every candidate was
\* rejected as in use
C4_Witness ==
  /\ IsTargetCall({"plugin"})
  /\ last.res = Err("NoFreeSlot")
  /\ \A i \in 1..Len(last.sent) : last.sent[i].answer = ERROR_ALREADY_EXISTS
  /\ serial_no[last.who] = 0

\* C5: plugin() on an attached target returns Err(AlreadyConnected), sends
\* no request and leaves serial_no as it was.
C5_AlreadyConnected ==
  /\ (IsTargetCall({"plugin"}) /\ last.pre # 0) =>
       /\ last.res = Err("AlreadyConnected")
       /\ last.sent = <<>>
       /\ serial_no[last.who] = last.pre
  /\ \A t \in Targets : tpc[t] = "plugin" => serial_no[t] = 0

\* C5 witness: a plugin() on an attached target was refused
C5_Witness ==
  /\ IsTargetCall({"plugin"})
  /\ last.pre # 0
  /\ last.res = Err("AlreadyConnected")
  /\ last.pre \in inUse

NeedAttachment == {"unplug", "wait_ready", "update", "update_ex", "request_notification"}

\* C6: unplug(), wait_ready(), update(), update_ex() and
\* request_notification() on an unattached target return
\* Err(NotPluggedIn), send no request, create no notification object and
\* leave the target unattached.
C6_NotPluggedIn ==
  /\ []((IsTargetCall(NeedAttachment) /\ last.pre = 0) =>
          /\ last.res = Err("NotPluggedIn")
          /\ last.sent = <<>>
          /\ serial_no[last.who] = 0)
  /\ [][\A t \in Targets :
          ((unplug(t) \/ wait_ready(t) \/ update(t) \/ update_ex(t)
              \/ request_notification(t)) /\ serial_no[t] = 0) =>
            UNCHANGED <<serial_no, tpc, plugin, offered, inUse, rstate,
                        SerialNo, overlapped, Report, pending>>]_vars

\* C6 witness: request_notification() on an unattached target was refused
C6_Witness ==
  /\ IsTargetCall({"request_notification"})
  /\ last.pre = 0
  /\ last.res = Err("NotPluggedIn")

\* C7: unplug() on an attached target sends one detach request for its
\* slot; serial_no becomes 0 exactly when the request succeeds, and a
\* failure is returned with the channel's error code, serial_no unchanged.
C7_Unplug ==
  (IsTargetCall({"unplug"}) /\ last.pre # 0) =>
    /\ Len(last.sent) = 1
    /\ last.sent[1].code = "UNPLUG_TARGET"
    /\ last.sent[1].slot = last.pre
    /\ IF last.sent[1].answer = "OK"
       THEN last.res = Ok /\ serial_no[last.who] = 0
       ELSE /\ last.res = WinError(last.sent[1].answer)
            /\ serial_no[last.who] = last.pre
            /\ last.pre \in inUse

\* C7 witness: an unplug() failed and the target stayed attached
C7_Witness ==
  /\ IsTargetCall({"unplug"})
  /\ last.pre # 0
  /\ last.res = WinError("ERROR_GEN_FAILURE")
  /\ serial_no[last.who] = last.pre

\* C8: destroying a target returns no error; an attached target sends
\* exactly one detach request for its slot, whatever the answer, an
\* unattached one sends none; a destroyed target makes no further call.
C8_DropTarget ==
  /\ IsTargetCall({"drop", "Drop"}) =>
       /\ last.res = Ok
       /\ tpc[last.who] = "dropped"
       /\ IF last.pre # 0
          THEN /\ Len(last.sent) = 1
               /\ last.sent[1].code = "UNPLUG_TARGET"
               /\ last.sent[1].slot = last.pre
          ELSE last.sent = <<>>
  /\ \A t \in Targets : tpc[t] = "dropped" =>
       ~ENABLED (drop(t) \/ DropTarget(t) \/ unplug(t))

\* C8 witness: an attached target was destroyed and its detach request failed
C8_Witness ==
  /\ IsTargetCall({"drop", "Drop"})
  /\ last.pre # 0
  /\ last.sent[1].answer # "OK"
  /\ tpc[last.who] = "dropped"

\* C9: request() sends one notification request exactly when the slot
\* snapshot is nonzero; with a snapshot of 0 it changes nothing.
C9_RequestGuard ==
  /\ [](IsReqNCall({"request"}) =>
          /\ last.res = Ok
          /\ (last.pre # 0) => /\ Len(last.sent) = 1
                               /\ last.sent[1].code = "DS4_REQUEST_NOTIFICATION"
                               /\ last.sent[1].slot = last.pre
          /\ (last.pre = 0) => last.sent = <<>>)
  /\ [][\A n \in ReqNs : (request(n) /\ SerialNo[n] = 0) =>
          UNCHANGED <<serial_no, tpc, plugin, offered, inUse, rstate,
                      SerialNo, overlapped, Report, pending>>]_vars

\* C9 witness: request() was called with a snapshot of 0
C9_Witness ==
  /\ IsReqNCall({"request"})
  /\ last.pre = 0
  /\ last.sent = <<>>

\* C10: poll(wait = false) is always possible on a live object, and when
\* no request was ever issued or the request is still pending it returns
\* Ok(None).
C10_PollNoWait ==
  /\ \A n \in ReqNs : rstate[n] = "live" => ENABLED poll(n, FALSE)
  /\ (IsReqNCall({"poll"}) /\ ~last.wait /\ last.ov \in {"none", "pending"}) =>
       last.res = Ok

\* C10 witness: poll(false) returned Ok(None) on an object that never
\* issued a request
C10_Witness ==
  /\ IsReqNCall({"poll"})
  /\ ~last.wait
  /\ last.ov = "none"
  /\ last.res = Ok

\* C11: poll() never re-arms. It sends nothing to the controller and leaves
\* the request's status, the buffer and the controller alone; so when a poll
\* has returned Ok(Some(report)), the next poll() of the same object, no
\* request() in between, returns that same Ok(Some(report)).
C11_PollNeverRearms ==
  /\ [](IsReqNCall({"poll"}) => last.sent = <<>>)
  /\ [][\A n \in ReqNs, wait \in BOOLEAN :
          poll(n, wait) => UNCHANGED <<overlapped, Report, pending, inUse>>]_vars
  /\ [][\A n \in ReqNs, wait \in BOOLEAN :
          (/\ IsReqNCall({"poll"})
           /\ last.who = n
           /\ last.res.kind = "Ok"
           /\ last.res.data # <<>>
           /\ poll(n, wait)) => last'.res = last.res]_vars

\* a poll returned a report other than the zeroed one, the request stays
\* completed and a further poll can follow at once
C11_Witness ==
  /\ IsReqNCall({"poll"})
  /\ last.res.kind = "Ok"
  /\ last.res.data # <<>>
  /\ last.res.data # <<ZeroReport>>
  /\ overlapped[last.who] = "OK"
  /\ ~pending[last.who]
  /\ ENABLED poll(last.who, FALSE)

\* C12: the thread of spawn_thread() calls request() and then poll(true),
\* in turn; it calls the callback once after a poll that returned
\* Ok(Some(report)), with that report, and after no other poll; it leaves
\* the loop at the first poll that returns an error, and from then on it
\* calls neither request() nor poll() nor the callback.
C12_LoopProtocol ==
  [][\A n \in ReqNs :
       /\ (thr[n] \in {"first", "request"} /\ thr'[n] # thr[n]) =>
            /\ request(n)
            /\ thr'[n] = "poll"
            /\ called'[n] = <<>>
       /\ (thr[n] = "poll" /\ thr'[n] # thr[n]) =>
            /\ poll(n, TRUE)
            /\ thr'[n] = IF last'.res.kind = "Err" THEN "break" ELSE "request"
            /\ called'[n] = IF last'.res.kind = "Ok" /\ last'.res.data # <<>>
                            THEN <<last'.res.data[1]>> ELSE <<>>
       /\ (thr[n] \in {"break", "done"}) =>
            /\ thr'[n] \in {thr[n], "done"}
            /\ called'[n] = called[n]
            /\ (last' # last /\ last'.obj = "reqn" /\ last'.who = n) =>
                 last'.op = "Drop"
       /\ (thr[n] # "none" /\ thr'[n] = thr[n]) =>
            /\ called'[n] = called[n]
            /\ SerialNo'[n] = SerialNo[n]
            /\ rstate'[n] = rstate[n]
            /\ ~(last' # last /\ last'.obj = "reqn" /\ last'.who = n)]_vars

\* the thread's poll returned an error after the controller had written a
\* report for an earlier request, and the thread left the loop without
\* calling the callback
C12_Witness ==
  \E n \in ReqNs :
    /\ thr[n] = "break"
    /\ IsReqNCall({"poll"})
    /\ last.who = n
    /\ last.wait
    /\ last.res.kind = "Err"
    /\ called[n] = <<>>
    /\ Report[n] # ZeroReport

\* the thread of n's spawn_thread() is in its loop
LoopRunning(n) == thr[n] \in {"first", "request", "poll"}

\* the slot of n's snapshot is attached to no target (or n has no slot)
SlotEmpty(n) == rstate[n] = "live" /\ SerialNo[n] \notin inUse

\* C13 as stated: once the target is detached, the thread of spawn_thread()
\* eventually ends.
C13_LoopEndsAfterDetach ==
  \A n \in ReqNs : (LoopRunning(n) /\ SlotEmpty(n)) ~> (thr[n] = "done")

\* C13: once the target is detached, the thread of spawn_thread() eventually
\* ends, unless a target is attached to the same slot before the thread has
\* seen a poll fail.
C13_LoopEndsUnlessSlotReused ==
  \A n \in ReqNs :
    (LoopRunning(n) /\ SlotEmpty(n)) ~> (thr[n] = "done" \/ SerialNo[n] \in inUse)

\* the originating target was unplugged, the thread's poll reported the
\* abort, and the thread has ended and dropped the object
C13_Witness ==
  \E n \in ReqNs :
    /\ thr[n] = "done"
    /\ origin[n] # 0
    /\ tpc[origin[n]] = "idle"
    /\ serial_no[origin[n]] = 0
    /\ IsReqNCall({"Drop"})
    /\ last.who = n
    /\ last.pre = 0

\* C14: in plugin() only the rejection of a slot that is in use is retried
\* with the next candidate; a channel error of the attach request ends the
\* call, which returns that error as Err(WinError(code)) and neither goes on
\* to the next candidate nor returns NoFreeSlot.
C14_OnlyBusyRetried ==
  /\ \A t \in Targets : tpc[t] = "plugin" =>
       \A i \in 1..Len(offered[t]) : offered[t][i].answer = ERROR_ALREADY_EXISTS
  /\ IsTargetCall({"plugin"}) =>
       \A i \in 1..Len(last.sent) :
         last.sent[i].answer \in ChannelErrors =>
           /\ i = Len(last.sent)
           /\ last.res = WinError(last.sent[i].answer)

\* C15: plugin() returns NoFreeSlot only after it has offered every
\* candidate from 1 to U16_MAX; when U16_MAX is the only free slot, plugin()
\* succeeds with it.
C15_AllSlotsOffered ==
  /\ (IsTargetCall({"plugin"}) /\ last.res = Err("NoFreeSlot")) =>
       SentSlots(last.sent) = [i \in 1..U16_MAX |-> i]
  /\ (/\ IsTargetCall({"plugin"})
      /\ last.sent # <<>>
      /\ \A i \in 1..Len(last.sent) :
           last.sent[i].answer \in {"OK", ERROR_ALREADY_EXISTS}
      /\ U16_MAX \notin inUse) => last.res = Ok

\* C16: a report returned by poll() as Ok(Some(report)) has, field for
\* field, the values the controller wrote into the buffer when it completed
\* the request: small_motor, large_motor and lightbar_color each come from
\* the field of the same name, whatever earlier completions had written.
C16_ReportRoundTrip ==
  (IsReqNCall({"poll"}) /\ last.res.kind = "Ok" /\ last.res.data # <<>>) =>
    /\ last.ov = "OK"
    /\ Len(last.res.data) = 1
    /\ last.res.data[1].small_motor = Report[last.who].small_motor
    /\ last.res.data[1].large_motor = Report[last.who].large_motor
    /\ last.res.data[1].lightbar_color = Report[last.who].lightbar_color
    /\ DOMAIN last.res.data[1] = {"small_motor", "large_motor", "lightbar_color"}

\* poll() returned a report whose three fields are not all equal, so that
\* a swap of fields would show
C16_Witness ==
  /\ IsReqNCall({"poll"})
  /\ last.res.kind = "Ok"
  /\ last.res.data # <<>>
  /\ last.res.data[1].small_motor # last.res.data[1].large_motor
  /\ last.res.data[1].large_motor # last.res.data[1].lightbar_color
  /\ last.res.data[1] = Report[last.who]

\* object n was created by target a, a is detached, n has not seen an abort,
\* and another target b is attached to the slot of n's snapshot
RaceState(n, a, b) ==
  /\ a # b
  /\ rstate[n] = "live"
  /\ origin[n] = a
  /\ serial_no[a] = 0
  /\ SerialNo[n] # 0
  /\ serial_no[b] = SerialNo[n]
  /\ tpc[b] # "dropped"
  /\ SerialNo[n] \in inUse

\* C17: the client has nothing that keeps a notification object away from a
\* slot that changed hands. When a's object has not seen an abort after a
\* was detached, a plugin() of another target b that has come to the slot
\* of the object's snapshot can be accepted for that slot; and once b holds
\* the slot, the object still reports is_attached() = true, a request() by
\* it is issued, against b's slot, and stays pending there.
C17_RaceNotExcluded ==
  \A n \in ReqNs : \A a \in Targets : \A b \in Targets \ {a} :
    /\ (/\ rstate[n] = "live"
        /\ origin[n] = a
        /\ serial_no[a] = 0
        /\ SerialNo[n] # 0
        /\ tpc[b] = "plugin"
        /\ plugin[b] = SerialNo[n]
        /\ SerialNo[n] \notin inUse) =>
         ENABLED (PluginLoop(b) /\ serial_no'[b] = SerialNo[n] /\ SerialNo'[n] = SerialNo[n])
    /\ RaceState(n, a, b) =>
         /\ rn_is_attached(n)
         /\ thr[n] = "none" => ENABLED (request(n) /\ pending'[n])
         /\ thr[n] \in {"first", "request"} => ENABLED (LoopRequest(n) /\ pending'[n])
         /\ (IsReqNCall({"request"}) /\ last.who = n) =>
              /\ Len(last.sent) = 1
              /\ last.sent[1].slot = serial_no[b]
              /\ last.sent[1].answer = "PENDING"

\* a's object holds a pending request against the slot that b now owns: a
\* is detached, b is attached to the slot, and the object's request() was
\* accepted there
C17_Witness ==
  \E n \in ReqNs : \E a \in Targets : \E b \in Targets :
    /\ RaceState(n, a, b)
    /\ rn_is_attached(n)
    /\ pending[n]
    /\ IsReqNCall({"request"})
    /\ last.who = n
    /\ last.sent = <<Ioctl("DS4_REQUEST_NOTIFICATION", serial_no[b], "PENDING")>>

\* C18: an object that has a request pending at the controller is live and
\* has a nonzero snapshot, so the guard of its drop lets the cancel through;
\* a live object's snapshot is zero only after it has seen the abort, when
\* nothing is pending; and no drop found a pending request with a zero
\* snapshot.
C18_PendingHasSnapshot ==
  /\ \A n \in ReqNs : pending[n] =>
       /\ rstate[n] = "live"
       /\ SerialNo[n] # 0
       /\ DropCancels(SerialNo[n])
  /\ \A n \in ReqNs : (rstate[n] = "live" /\ SerialNo[n] = 0) =>
       /\ ~pending[n]
       /\ overlapped[n] = ERROR_OPERATION_ABORTED
  /\ (IsReqNCall({"Drop"}) /\ last.ov = "pending") =>
       /\ last.pre # 0
       /\ Len(last.sent) = 1
       /\ last.sent[1].code = "CANCEL"

\* an object was dropped while its request was pending, with a nonzero
\* snapshot, and its cancel reached the controller and succeeded
C18_Witness ==
  /\ IsReqNCall({"Drop"})
  /\ last.ov = "pending"
  /\ last.pre # 0
  /\ last.sent # <<>>
  /\ last.sent[1].answer = "OK"
  /\ ~pending[last.who]

\* C19: no two targets that are attached at the same time hold the same
\* slot: an attached target's slot is attached at the controller, and it is
\* no other undropped target's slot; a plugin() that succeeded was given a
\* slot that no other target holds.
C19_SlotExclusive ==
  /\ \A t1 \in Targets : \A t2 \in Targets \ {t1} :
       (is_attached(t1) /\ is_attached(t2)) => serial_no[t1] # serial_no[t2]
  /\ \A t \in Targets : is_attached(t) => serial_no[t] \in inUse
  /\ (IsTargetCall({"plugin"}) /\ last.res = Ok /\ last.sent # <<>>) =>
       \A t \in Targets \ {last.who} : serial_no[t] # serial_no[last.who]

\* two targets are attached at the same time, each to its own slot, the
\* second one after the controller rejected the slot of the first
C19_Witness ==
  /\ IsTargetCall({"plugin"})
  /\ last.res = Ok
  /\ Len(last.sent) >= 2
  /\ \E t \in Targets \ {last.who} :
       /\ is_attached(t)
       /\ tpc[t] = "idle"
       /\ serial_no[t] = last.sent[1].slot
       /\ last.sent[1].answer = ERROR_ALREADY_EXISTS
  /\ is_attached(last.who)

\* C20 as stated: whoever calls it, request() never issues a new request
\* while the object's previous one is still pending.
C20_OneInFlight ==
  (IsReqNCall({"request"}) /\ last.sent # <<>>) => last.ov # "pending"

\* C20: in the loop of spawn_thread() every request() after the first is
\* called with no request of the object pending, the poll(true) before it
\* having returned; and nothing is pending once the loop is left.
C20_LoopOneInFlight ==
  /\ [](\A n \in ReqNs : thr[n] \in {"request", "break", "done"} =>
         /\ ~pending[n]
         /\ overlapped[n] # "pending")
  /\ [][\A n \in ReqNs : (thr[n] = "request" /\ LoopRequest(n)) =>
          /\ last'.ov # "pending"
          /\ ~pending[n]]_vars

\* the thread issued a request after an earlier one had completed with a
\* report, and the new one is the only one pending
C20_Witness ==
  \E n \in ReqNs :
    /\ thr[n] = "poll"
    /\ IsReqNCall({"request"})
    /\ last.who = n
    /\ last.ov = "OK"
    /\ last.sent # <<>>
    /\ pending[n]

====
